---- MODULE Spec2Model ----
(***************************************************************************)
(* A model of the scheduling core of harmony-ai-planner:                   *)
(*   - compute_free_slots (agent node) and TimeSlotFinder.find_free_slots  *)
(*   - filter_slots and EventDistributor.distribute_events                 *)
(*   - select_slots and select_task_slot                                   *)
(*   - SchedulerEngine.schedule_plan                                       *)
(* Instants are whole seconds since the midnight that starts day 0 (UTC).  *)
(* An ISO string written by isoformat() and read back by fromisoformat()   *)
(* denotes the same instant, so a time is carried as its instant; minute   *)
(* counts are computed as the code computes them, int(seconds / 60).       *)
(***************************************************************************)
EXTENDS Integers, Sequences, FiniteSets, TLC

VARIABLES
    \* ---- free-time computation (compute_free_slots, find_free_slots)
    calendar_events_normalized, \* busy events handed to the computation
    start_date,                 \* window start (planning_horizon / start_time)
    end_date,                   \* window end
    min_duration_minutes,       \* find_free_slots argument
    preferred_time_windows,     \* TimeSlotFinder.preferred_time_windows
    free_time_slots,            \* what compute_free_slots wrote
    finder_slots,               \* what find_free_slots returned
    free_done,                  \* which of "computed", "found" have run
    \* ---- constraint filter and minutes distributor
    available_slots,            \* the free slots handed to either operation
    total_minutes,              \* EventDistributor.total_minutes
    min_event_duration,         \* min_event_duration / habit duration_minutes
    max_event_duration,         \* max_event_duration / max_duration_minutes
    min_break,                  \* min_break / buffer_minutes
    days_of_week,               \* time_constraints.days_of_week
    preferred_times,            \* time_constraints.preferred_times
    filtered_slots,             \* what filter_slots wrote
    scheduled_events,           \* distribute_events()[0]
    remaining_minutes,          \* distribute_events()[1]
    slots_done,                 \* which of "filtered", "distributed" have run
    \* ---- occurrence / single-item selection
    candidate_slots,            \* filtered_slots (habit) or free_time_slots (task)
    required_duration_minutes,  \* duration_minutes / estimated_*_minutes
    buffer_minutes,             \* habit_definition.buffer_minutes
    habit_definition,           \* num_occurrences (may be None) and frequency
    llm_response,               \* what the ranking model answered
    selected_slots,             \* what the selector returned
    select_raised,              \* the selector raised instead of returning
    select_op,                  \* "none" | "habit" | "task" | "task_slot"
    \* ---- SchedulerEngine.schedule_plan
    requirement,                \* the PlanRequirement
    existing_events,            \* what calendar_repository.list_events returns
    now_time,                   \* datetime.now() of the call
    result,                     \* the SchedulingResult being built
    engine_free_slots,          \* free_slots
    planned_events,             \* scheduled_events
    engine_remaining,           \* remaining_minutes (the local)
    created_events,             \* created_events (the local)
    create_calls,               \* calls made to create_event so far
    list_events_raises,         \* the calendar's answer to list_events
    create_failures,            \* the create_event calls the calendar rejects
    engine_run,                 \* 1 or 2: which invocation is running
    first_result,               \* what the first invocation returned
    engine_pc,                  \* "idle" | "start" | "find_slots" |
                                \* "distribute" | "create" | "returned"
    \* ---- the agent graph (create_agent)
    \* ---- filter_task_slots (agent node, task flow)
    task_free_slots,            \* free_time_slots
    task_duration,              \* task_definition.estimated_duration_minutes
    task_due,                   \* task_definition.due, parsed (set, at)
    task_candidates,            \* what filter_task_slots wrote
    task_done,                  \* filter_task_slots has run
    \* ---- the agent graph (create_agent)
    agent_state,                \* the AgentState fields the routers read
    agent_pc,                   \* the node to run next, "END" or "idle"
    node_runs                   \* how often each node ran in this invocation

free_vars == <<calendar_events_normalized, start_date, end_date,
               min_duration_minutes, preferred_time_windows,
               free_time_slots, finder_slots, free_done>>

slots_vars == <<available_slots, total_minutes, min_event_duration,
                max_event_duration, min_break, days_of_week, preferred_times,
                filtered_slots, scheduled_events, remaining_minutes, slots_done>>

select_vars == <<candidate_slots, required_duration_minutes, buffer_minutes,
                 habit_definition, llm_response, selected_slots,
                 select_raised, select_op>>

engine_vars == <<requirement, existing_events, now_time, result,
                 engine_free_slots, planned_events, engine_remaining,
                 created_events, create_calls, engine_pc,
                 list_events_raises, create_failures, engine_run,
                 first_result>>

task_vars == <<task_free_slots, task_duration, task_due, task_candidates,
               task_done>>

agent_vars == <<agent_state, agent_pc, node_runs>>

vars == <<free_vars, slots_vars, select_vars, engine_vars, task_vars,
          agent_vars>>

----------------------------------------------------------------------------
\* Units

Minute == 60
Hour == 3600
Day == 86400

\* int(x / d) of Python for an integer number of seconds x: truncation
\* toward zero.
TruncDiv(x, d) == IF x >= 0 THEN x \div d ELSE -((-x) \div d)

Min2(a, b) == IF a <= b THEN a ELSE b
Max2(a, b) == IF a >= b THEN a ELSE b

RECURSIVE InsertByStart(_, _)
InsertByStart(sorted, x) ==
    IF sorted = <<>> THEN <<x>>
    ELSE IF x.start < Head(sorted).start
         THEN <<x>> \o sorted
         ELSE <<Head(sorted)>> \o InsertByStart(Tail(sorted), x)

RECURSIVE SortByStart(_)
\* list.sort(key=start) / sorted(..., key=start): stable, ascending.
SortByStart(s) ==
    IF s = <<>> THEN <<>>
    ELSE InsertByStart(SortByStart(SubSeq(s, 1, Len(s) - 1)), s[Len(s)])

----------------------------------------------------------------------------
\* compute_free_slots (agent node)

\* A free-slot dict: start, end, duration_minutes = int(seconds / 60).
FreeSlotDict(s, e) ==
    [start |-> s, end |-> e, duration_minutes |-> TruncDiv(e - s, Minute)]

\* current_time.replace(minute=0, second=0, microsecond=0)
RoundToHour(t) == t - (t % Hour)

RECURSIVE SweepBusy(_, _, _)
\* The for loop over the sorted busy periods.
SweepBusy(busy, current_time, free_slots) ==
    IF busy = <<>>
    THEN [current_time |-> current_time, free_slots |-> free_slots]
    ELSE LET b == Head(busy)
             fs == IF current_time < b.start
                   THEN Append(free_slots, FreeSlotDict(current_time, b.start))
                   ELSE free_slots
             ct == IF b.end > current_time THEN b.end ELSE current_time
         IN SweepBusy(Tail(busy), ct, fs)

compute_free_slots(events, sd, ed) ==
    LET busy_periods == SortByStart(events)
        sw == SweepBusy(busy_periods, RoundToHour(sd), <<>>)
        withFinal == IF sw.current_time < ed
                     THEN Append(sw.free_slots, FreeSlotDict(sw.current_time, ed))
                     ELSE sw.free_slots
    IN IF busy_periods = <<>>
       THEN Append(withFinal, FreeSlotDict(sd, ed))
       ELSE withFinal

----------------------------------------------------------------------------
\* TimeSlotFinder

\* TimeSlot.__post_init__: duration_minutes is always recomputed.
TimeSlot(s, e) ==
    [start |-> s, end |-> e, duration_minutes |-> TruncDiv(e - s, Minute)]

RECURSIVE _parse_events_to_intervals(_, _, _)
_parse_events_to_intervals(events, st, et) ==
    IF events = <<>> THEN <<>>
    ELSE LET ev == Head(events)
             rest == _parse_events_to_intervals(Tail(events), st, et)
         IN IF ev.start < et /\ ev.end > st
            THEN <<[start |-> Max2(ev.start, st), end |-> Min2(ev.end, et)]>> \o rest
            ELSE rest

\* _slot_in_window: the window is laid on the date of slot.start only.
_slot_in_window(slot, window) ==
    LET slot_date == slot.start - (slot.start % Day)
        window_start == slot_date + window.start_hour * Hour
                                  + window.start_minute * Minute
        we == slot_date + window.end_hour * Hour + window.end_minute * Minute
        window_end == IF we <= window_start THEN we + Day ELSE we
    IN slot.start < window_end /\ slot.end > window_start

_filter_by_time_windows(slots, windows) ==
    SelectSeq(slots, LAMBDA s :
        \E i \in 1..Len(windows) : _slot_in_window(s, windows[i]))

RECURSIVE SweepIntervals_no_max(_, _, _, _)
\* Mutant: the cursor is set to the end of each busy interval in turn.
SweepIntervals_no_max(busy, current_time, free_slots, mind) ==
    IF busy = <<>>
    THEN [current_time |-> current_time, free_slots |-> free_slots]
    ELSE LET b == Head(busy)
             fs == IF current_time < b.start
                      /\ (b.start - current_time) >= mind * Minute
                   THEN Append(free_slots, TimeSlot(current_time, b.start))
                   ELSE free_slots
         IN SweepIntervals_no_max(Tail(busy), b.end, fs, mind)

RECURSIVE SweepIntervals(_, _, _, _)
SweepIntervals(busy, current_time, free_slots, mind) ==
    IF busy = <<>>
    THEN [current_time |-> current_time, free_slots |-> free_slots]
    ELSE LET b == Head(busy)
             \* gap_duration >= min_duration_minutes compares the exact
             \* quotient seconds / 60 with the minimum
             fs == IF current_time < b.start
                      /\ (b.start - current_time) >= mind * Minute
                   THEN Append(free_slots, TimeSlot(current_time, b.start))
                   ELSE free_slots
             ct == IF b.end > current_time THEN b.end ELSE current_time
         IN SweepIntervals(Tail(busy), ct, fs, mind)

find_free_slots(events, st, et, windows, mind) ==
    LET busy_intervals == SortByStart(_parse_events_to_intervals(events, st, et))
        sw == SweepIntervals(busy_intervals, st, <<>>, mind)
        all == IF sw.current_time < et /\ (et - sw.current_time) >= mind * Minute
               THEN Append(sw.free_slots, TimeSlot(sw.current_time, et))
               ELSE sw.free_slots
    IN IF windows # <<>> THEN _filter_by_time_windows(all, windows) ELSE all

----------------------------------------------------------------------------
\* Inputs of the free-time computation

MaxEvents == 2

\* Instants the calendar events may start or end at (00:00 .. 04:00, one of
\* them not on a whole minute).
EventTimes == {0, 3600, 5400, 5430, 7200, 10800, 14400}

Intervals(T) == {[start |-> a, end |-> b] : a \in T, b \in T}

BusyEvents == {iv \in Intervals(EventTimes) : iv.start < iv.end}

\* An event a calendar can also hold: one of zero length (02:00-02:00).
MalformedEvents == {[start |-> 7200, end |-> 7200]}

RECURSIVE SeqsUpTo(_, _)
SeqsUpTo(S, n) ==
    IF n = 0 THEN {<<>>}
    ELSE LET shorter == SeqsUpTo(S, n - 1)
         IN shorter \cup {Append(q, x) : q \in {r \in shorter : Len(r) = n - 1}, x \in S}

WindowStarts == {3600, 5400}
\* 02:30 and 03:00 of day 0, 02:00 of day 1
WindowEnds == {9000, 10800, 93600}
MinDurations == {1, 30}
WindowChoices == {<<>>,
                  <<[start_hour |-> 1, start_minute |-> 30,
                     end_hour |-> 2, end_minute |-> 0]>>}

FreeInit ==
    /\ calendar_events_normalized \in
           SeqsUpTo(BusyEvents \cup MalformedEvents, MaxEvents)
    /\ start_date \in WindowStarts
    /\ end_date \in WindowEnds
    /\ min_duration_minutes \in MinDurations
    /\ preferred_time_windows \in WindowChoices
    /\ free_time_slots = <<>>
    /\ finder_slots = <<>>
    /\ free_done = {}

FreeIdle ==
    /\ calendar_events_normalized = <<>>
    /\ start_date = 0
    /\ end_date = 0
    /\ min_duration_minutes = 0
    /\ preferred_time_windows = <<>>
    /\ free_time_slots = <<>>
    /\ finder_slots = <<>>
    /\ free_done = {}

\* The agent node: reads calendar_events_normalized and planning_horizon,
\* writes free_time_slots.
ComputeFreeSlots ==
    /\ "computed" \notin free_done
    /\ free_time_slots' = compute_free_slots(calendar_events_normalized,
                                             start_date, end_date)
    /\ free_done' = free_done \cup {"computed"}
    /\ UNCHANGED <<calendar_events_normalized, start_date, end_date,
                   min_duration_minutes, preferred_time_windows, finder_slots>>

\* TimeSlotFinder(existing_events, start_time, end_time, windows)
\*     .find_free_slots(min_duration_minutes)
FindFreeSlots ==
    /\ "found" \notin free_done
    /\ finder_slots' = find_free_slots(calendar_events_normalized, start_date,
                                       end_date, preferred_time_windows,
                                       min_duration_minutes)
    /\ free_done' = free_done \cup {"found"}
    /\ UNCHANGED <<calendar_events_normalized, start_date, end_date,
                   min_duration_minutes, preferred_time_windows, free_time_slots>>


----------------------------------------------------------------------------
\* filter_slots (agent node, habit flow)

\* datetime.weekday(): 0 = Monday. Day 0 of the model is a Monday.
Weekday(t) == (t \div Day) % 7

\* datetime.hour
HourOf(t) == (t % Day) \div Hour

Abs(x) == IF x >= 0 THEN x ELSE -x

\* The +-1 hour test of the preferred-time check: only the hours are compared.
MatchesPreferred(slot_start, prefs) ==
    \E i \in 1..Len(prefs) : Abs(HourOf(slot_start) - prefs[i].hour) <= 1

RECURSIVE CarveSlot_no_gap(_, _, _, _, _, _)
\* Mutant: the next candidate starts where the last one ends.
CarveSlot_no_gap(current_time, remaining_duration, slot_end, required, maxd, buffer) ==
    IF remaining_duration < required \/ Min2(maxd, remaining_duration) < required
    THEN <<>>
    ELSE LET available_for_habit == Min2(maxd, remaining_duration)
             event_end == current_time + available_for_habit * Minute
         IN <<[start |-> current_time,
               end |-> event_end,
               duration_minutes |-> available_for_habit]>>
            \o CarveSlot_no_gap(event_end,
                                TruncDiv(slot_end - event_end, Minute),
                                slot_end, required, maxd, buffer)

RECURSIVE CarveSlot(_, _, _, _, _, _)
\* The while loop that breaks one free slot into candidates.
CarveSlot(current_time, remaining_duration, slot_end, required, maxd, buffer) ==
    IF remaining_duration < required THEN <<>>
    ELSE LET available0 == Min2(maxd, remaining_duration)
         IN IF available0 < required THEN <<>>
            ELSE LET end0 == current_time + available0 * Minute
                     clipped == end0 > slot_end
                     event_end == IF clipped THEN slot_end ELSE end0
                     available_for_habit ==
                         IF clipped
                         THEN TruncDiv(event_end - current_time, Minute)
                         ELSE available0
                 IN IF clipped /\ available_for_habit < required THEN <<>>
                    ELSE LET next_time == event_end + buffer * Minute
                             rem == TruncDiv(slot_end - next_time, Minute)
                         IN <<[start |-> current_time,
                               end |-> event_end,
                               duration_minutes |-> available_for_habit]>>
                            \o (IF rem < required THEN <<>>
                                ELSE CarveSlot(next_time, rem, slot_end,
                                               required, maxd, buffer))

\* One iteration of the for loop over free_slots: the candidates of one slot.
FilterOneSlot(slot, required, maxd, buffer, dow, prefs) ==
    IF slot.duration_minutes < required THEN <<>>
    ELSE IF dow # {} /\ Weekday(slot.start) \notin dow THEN <<>>
    ELSE IF prefs # <<>> /\ ~MatchesPreferred(slot.start, prefs) THEN <<>>
    ELSE CarveSlot(slot.start, slot.duration_minutes, slot.end,
                   required, maxd, buffer)

RECURSIVE filter_slots(_, _, _, _, _, _)
filter_slots(free_slots, required, maxd, buffer, dow, prefs) ==
    IF free_slots = <<>> THEN <<>>
    ELSE FilterOneSlot(Head(free_slots), required, maxd, buffer, dow, prefs)
         \o filter_slots(Tail(free_slots), required, maxd, buffer, dow, prefs)

----------------------------------------------------------------------------
\* EventDistributor

\* Mutant: the max_event_duration cap is forgotten.
_calculate_event_duration_uncapped(slot_duration, remaining, mind, maxd) ==
    LET event_duration == Min2(remaining, slot_duration)
    IN IF event_duration < mind THEN 0 ELSE event_duration

\* Mutant: the minutes still needed are not looked at.
_calculate_event_duration_ignores_remaining(slot_duration, remaining, mind, maxd) ==
    Min2(maxd, slot_duration)

\* Mutant: the length of the slot is not looked at.
_calculate_event_duration_ignores_slot(slot_duration, remaining, mind, maxd) ==
    LET event_duration == Min2(remaining, maxd)
    IN IF event_duration < mind THEN 0 ELSE event_duration

_calculate_event_duration(slot_duration, remaining, mind, maxd) ==
    IF remaining >= maxd
    THEN Min2(maxd, slot_duration)
    ELSE LET event_duration == Min2(remaining, slot_duration)
         IN IF event_duration < mind THEN 0
            ELSE Min2(event_duration, maxd)

\* Mutant: the break is returned in seconds, not minutes.
_calculate_break_needed_seconds(last_event_end, next_slot_start) ==
    IF next_slot_start <= last_event_end THEN 0
    ELSE next_slot_start - last_event_end

_calculate_break_needed(last_event_end, next_slot_start) ==
    IF next_slot_start <= last_event_end THEN 0
    ELSE TruncDiv(next_slot_start - last_event_end, Minute)

RECURSIVE DistributeLoop(_, _, _, _, _, _, _)
\* The for loop over enumerate(sorted_slots); i is the 0-based index.
DistributeLoop(sorted_slots, i, events, remaining, mind, maxd, brk) ==
    IF i >= Len(sorted_slots) \/ remaining <= 0
    THEN [events |-> events, remaining |-> remaining]
    ELSE LET slot == sorted_slots[i + 1]
             skip == /\ events # <<>>
                     /\ _calculate_break_needed(events[Len(events)].end_time,
                                                slot.start) < brk
             event_duration == _calculate_event_duration(slot.duration_minutes,
                                                         remaining, mind, maxd)
         IN IF skip \/ event_duration < mind
            THEN DistributeLoop(sorted_slots, i + 1, events, remaining,
                                mind, maxd, brk)
            ELSE DistributeLoop(sorted_slots, i + 1,
                     Append(events,
                            [start_time |-> slot.start,
                             end_time |-> slot.start + event_duration * Minute,
                             duration_minutes |-> event_duration,
                             slot_index |-> i,
                             slot_start |-> slot.start]),
                     remaining - event_duration, mind, maxd, brk)

distribute_events(slots, total, mind, maxd, brk) ==
    IF slots = <<>>
    THEN [events |-> <<>>, remaining |-> total]
    ELSE DistributeLoop(SortByStart(slots), 0, <<>>, total, mind, maxd, brk)

----------------------------------------------------------------------------
\* Inputs of the constraint filter and of the distributor

MaxSlots == 2

\* Slot boundaries around the midnight that ends day 0: 22:00, 22:50 and
\* 23:30 on day 0, 00:30 and 01:30:30 on day 1.
SlotTimes == {79200, 82200, 84600, 88200, 91830}

SlotChoices == {TimeSlot(iv.start, iv.end) :
                    iv \in {x \in Intervals(SlotTimes) : x.start < x.end}}

TotalChoices == {60, 100}
MinChoices == {20, 30}
MaxChoices == {30, 45}
BreakChoices == {0, 10, 15}
DayChoices == {{}, {0}}
PreferredChoices == {<<>>, <<[hour |-> 23, minute |-> 0]>>}

SlotsInit ==
    /\ available_slots \in SeqsUpTo(SlotChoices, MaxSlots)
    /\ total_minutes \in TotalChoices
    /\ min_event_duration \in MinChoices
    /\ max_event_duration \in MaxChoices
    /\ min_break \in BreakChoices
    /\ days_of_week \in DayChoices
    /\ preferred_times \in PreferredChoices
    /\ filtered_slots = <<>>
    /\ scheduled_events = <<>>
    /\ remaining_minutes = 0
    /\ slots_done = {}

SlotsIdle ==
    /\ available_slots = <<>>
    /\ total_minutes = 0
    /\ min_event_duration = 0
    /\ max_event_duration = 0
    /\ min_break = 0
    /\ days_of_week = {}
    /\ preferred_times = <<>>
    /\ filtered_slots = <<>>
    /\ scheduled_events = <<>>
    /\ remaining_minutes = 0
    /\ slots_done = {}

\* habit_definition.get("max_duration_minutes", 60)
DefaultMaxDuration == 60

\* The agent node: reads free_time_slots, habit_definition and
\* time_constraints, writes filtered_slots.  The habit_definition carries
\* max_duration_minutes.
FilterSlots ==
    /\ slots_done \cap {"filtered", "filtered_no_max"} = {}
    /\ filtered_slots' = filter_slots(available_slots, min_event_duration,
                                      max_event_duration, min_break,
                                      days_of_week, preferred_times)
    /\ slots_done' = slots_done \cup {"filtered"}
    /\ UNCHANGED <<available_slots, total_minutes, min_event_duration,
                   max_event_duration, min_break, days_of_week,
                   preferred_times, scheduled_events, remaining_minutes>>

\* The same node for a habit_definition without max_duration_minutes: the
\* default of the .get() call is the maximum.
FilterSlotsNoMax ==
    /\ slots_done \cap {"filtered", "filtered_no_max"} = {}
    /\ filtered_slots' = filter_slots(available_slots, min_event_duration,
                                      DefaultMaxDuration, min_break,
                                      days_of_week, preferred_times)
    /\ slots_done' = slots_done \cup {"filtered_no_max"}
    /\ UNCHANGED <<available_slots, total_minutes, min_event_duration,
                   max_event_duration, min_break, days_of_week,
                   preferred_times, scheduled_events, remaining_minutes>>

\* EventDistributor(total, min, max, min_break).distribute_events(slots)
DistributeEvents ==
    /\ "distributed" \notin slots_done
    /\ LET r == distribute_events(available_slots, total_minutes,
                                  min_event_duration, max_event_duration,
                                  min_break)
       IN /\ scheduled_events' = r.events
          /\ remaining_minutes' = r.remaining
    /\ slots_done' = slots_done \cup {"distributed"}
    /\ UNCHANGED <<available_slots, total_minutes, min_event_duration,
                   max_event_duration, min_break, days_of_week,
                   preferred_times, filtered_slots>>

----------------------------------------------------------------------------
\* select_slots (agent node) and select_task_slot (agent node)
\*
\* An answer of the ranking model (llm_response) is a record:
\*   kind = "error"      llm.invoke raised (a timeout, an API error)
\*   kind = "bad_json"   the answer is no JSON: json.loads raises
\*                       JSONDecodeError, a ValueError
\*   kind = "bad_type"   the answer is JSON whose index is not a number
\*   kind = "ok"         the answer is a JSON object; has_index / has_start
\*                       say whether the key holds a value (else None),
\*                       selected_indices is the habit answer's list.

\* candidate_slots[:50]
CandidateCap == 50

Take(s, n) == SubSeq(s, 1, Min2(n, Len(s)))

\* The target count of the habit branch.
NumSlotsToSelect(h) ==
    IF h.has_num THEN h.num_occurrences
    ELSE IF h.frequency = "daily" THEN 7
    ELSE IF h.frequency = "weekly" THEN 1
    ELSE IF h.frequency = "twice_weekly" THEN 2
    ELSE 1

InSeq(x, s) == \E i \in 1..Len(s) : s[i] = x

RECURSIVE MapIndices(_, _)
\* for idx in selected_indices: keep sorted_candidates[idx - 1] when in range.
MapIndices(indices, sorted_candidates) ==
    IF indices = <<>> THEN <<>>
    ELSE LET slot_idx == Head(indices) - 1
             rest == MapIndices(Tail(indices), sorted_candidates)
         IN IF 0 <= slot_idx /\ slot_idx < Len(sorted_candidates)
            THEN <<sorted_candidates[slot_idx + 1]>> \o rest
            ELSE rest

RECURSIVE FillLoop(_, _, _, _, _, _, _)
\* "Add remaining slots in order, ensuring buffer requirement": the loop
\* that tops up the model's selection.  has_last is "last_end_time is set".
FillLoop(slots, selected, has_last, last_end_time, target, buffer, required) ==
    IF slots = <<>> \/ Len(selected) >= target THEN selected
    ELSE LET slot == Head(slots)
             skip == \/ InSeq(slot, selected)
                     \/ (has_last /\ slot.start - last_end_time < buffer * Minute)
         IN IF skip
            THEN FillLoop(Tail(slots), selected, has_last, last_end_time,
                          target, buffer, required)
            ELSE IF slot.duration_minutes >= required
            THEN FillLoop(Tail(slots), Append(selected, slot), TRUE, slot.end,
                          target, buffer, required)
            ELSE FillLoop(Tail(slots), selected, has_last, last_end_time,
                          target, buffer, required)

\* The habit branch of the try block.
HabitFromModel(sorted_candidates, indices, target, buffer, required) ==
    LET picked == MapIndices(indices, sorted_candidates)
    IN IF Len(picked) < target /\ Len(picked) < Len(sorted_candidates)
       THEN FillLoop(sorted_candidates, picked, picked # <<>>,
                     IF picked # <<>> THEN picked[Len(picked)].end ELSE 0,
                     target, buffer, required)
       ELSE picked

RECURSIVE HabitFallbackLoop(_, _, _, _, _, _, _)
\* The except branch for habits.
HabitFallbackLoop(slots, selected, has_last, last_end, target, buffer, required) ==
    IF slots = <<>> \/ Len(selected) >= target THEN selected
    ELSE LET slot == Head(slots)
         IN IF has_last /\ slot.start - last_end < buffer * Minute
            THEN HabitFallbackLoop(Tail(slots), selected, has_last, last_end,
                                   target, buffer, required)
            ELSE IF slot.duration_minutes >= required
            THEN HabitFallbackLoop(Tail(slots), Append(selected, slot), TRUE,
                                   slot.end, target, buffer, required)
            ELSE HabitFallbackLoop(Tail(slots), selected, has_last, last_end,
                                   target, buffer, required)

\* A task placement dict; original_free_slot_index 0 stands for None
\* (the model's indices are 1-based).
TaskPlacement(s, e, dur, idx) ==
    [start |-> s, end |-> e, duration_minutes |-> dur,
     original_free_slot_index |-> idx]

RECURSIVE TaskFallbackLoop(_, _)
\* The except branch for tasks: the first slot, in start order, that is long
\* enough; the task is put at its start.
TaskFallbackLoop(slots, required) ==
    IF slots = <<>> THEN <<>>
    ELSE LET slot == Head(slots)
             end0 == slot.start + required * Minute
             over == end0 > slot.end
             task_end == IF over THEN slot.end ELSE end0
             task_start == IF over THEN slot.end - required * Minute
                           ELSE slot.start
         IN IF slot.duration_minutes >= required
               /\ ~(over /\ task_start < slot.start)
            THEN <<TaskPlacement(task_start, task_end, required, 0)>>
            ELSE TaskFallbackLoop(Tail(slots), required)

\* Mutant: a proposal that overflows the slot end is cut off at the slot
\* end, its start is left where it was.
ValidateProposal_cut(free_slot, proposed_start, required) ==
    LET start1 == IF proposed_start < free_slot.start THEN free_slot.start
                  ELSE proposed_start
        end1 == start1 + required * Minute
    IN [ok |-> TRUE, start |-> start1,
        end |-> IF end1 > free_slot.end THEN free_slot.end ELSE end1]

\* "Validate that task fits within free slot": ok = FALSE is the ValueError
\* "Task duration ... is too long for free slot".
ValidateProposal(free_slot, proposed_start, required) ==
    LET start1 == IF proposed_start < free_slot.start THEN free_slot.start
                  ELSE proposed_start
        end1 == start1 + required * Minute
        over == end1 > free_slot.end
        task_end == IF over THEN free_slot.end ELSE end1
        task_start == IF over THEN task_end - required * Minute ELSE start1
    IN [ok |-> ~(over /\ task_start < free_slot.start),
        start |-> task_start, end |-> task_end]

\* The task branch of the try block: selected |-> the result, or
\* failed = TRUE when the branch raised (every raise is caught below).
TaskFromModel(sorted_candidates, resp, required) ==
    IF ~resp.has_index \/ ~resp.has_start
    THEN [failed |-> TRUE, selected |-> <<>>]
    ELSE LET slot_idx == resp.index - 1
         IN IF ~(0 <= slot_idx /\ slot_idx < Len(sorted_candidates))
            THEN [failed |-> TRUE, selected |-> <<>>]
            ELSE LET v == ValidateProposal(sorted_candidates[slot_idx + 1],
                                           resp.start, required)
                 IN IF ~v.ok THEN [failed |-> TRUE, selected |-> <<>>]
                    ELSE [failed |-> FALSE,
                          selected |-> <<TaskPlacement(v.start, v.end,
                                                       required, resp.index)>>]

\* select_slots: `except (..., Exception)` catches whatever the try block
\* raises, so the node always returns.
select_slots(cands, is_task, required, buffer, target, resp) ==
    IF cands = <<>> THEN <<>>
    ELSE LET sorted_candidates == SortByStart(Take(cands, CandidateCap))
             sorted_slots == SortByStart(cands)
             fallback == IF is_task
                         THEN TaskFallbackLoop(sorted_slots, required)
                         ELSE HabitFallbackLoop(sorted_slots, <<>>, FALSE, 0,
                                                target, buffer, required)
         IN IF resp.kind # "ok" THEN fallback
            ELSE IF is_task
            THEN LET r == TaskFromModel(sorted_candidates, resp, required)
                 IN IF r.failed THEN fallback ELSE r.selected
            ELSE HabitFromModel(sorted_candidates, resp.selected_indices,
                                target, buffer, required)

RECURSIVE FirstLongEnough(_, _)
\* for slot in ...: if duration_minutes >= required: append; break
FirstLongEnough(slots, required) ==
    IF slots = <<>> THEN <<>>
    ELSE IF Head(slots).duration_minutes >= required THEN <<Head(slots)>>
    ELSE FirstLongEnough(Tail(slots), required)

\* select_task_slot: `except (json.JSONDecodeError, KeyError, ValueError)`;
\* any other exception leaves the node (raised = TRUE).
select_task_slot(cands, required, resp) ==
    IF cands = <<>> THEN [raised |-> FALSE, selected |-> <<>>]
    ELSE LET sorted_candidates == SortByStart(Take(cands, CandidateCap))
         IN CASE resp.kind = "error" -> [raised |-> TRUE, selected |-> <<>>]
              [] resp.kind = "bad_type" -> [raised |-> TRUE, selected |-> <<>>]
              [] resp.kind = "bad_json" ->
                    [raised |-> FALSE,
                     selected |-> FirstLongEnough(SortByStart(cands), required)]
              [] OTHER ->
                    LET slot_idx == resp.index - 1
                        \* `if selected_index:` is false for None and for 0
                        picked == IF resp.has_index /\ resp.index # 0
                                     /\ 0 <= slot_idx
                                     /\ slot_idx < Len(sorted_candidates)
                                  THEN <<sorted_candidates[slot_idx + 1]>>
                                  ELSE <<>>
                    IN [raised |-> FALSE,
                        selected |-> IF picked # <<>> THEN picked
                                     ELSE FirstLongEnough(sorted_candidates,
                                                          required)]

----------------------------------------------------------------------------
\* Inputs of the selection

MaxCandidates == 2
MaxPicks == 2

\* 00:00, 00:30, 01:00 and 01:45:30
SelectTimes == {0, 1800, 3600, 6330}

CandidateChoices == {TimeSlot(iv.start, iv.end) :
                        iv \in {x \in Intervals(SelectTimes) : x.start < x.end}}

\* Start times the model may propose (00:15, 01:15, 01:30).
ProposalTimes == {900, 4500, 5400}

RequiredChoices == {30, 45}
BufferChoices == {0, 15}
HabitChoices ==
    {[has_num |-> FALSE, num_occurrences |-> 0, frequency |-> "daily"],
     [has_num |-> FALSE, num_occurrences |-> 0, frequency |-> "weekly"],
     [has_num |-> TRUE, num_occurrences |-> 2, frequency |-> "daily"]}

Response(kind, has_index, index, has_start, start, indices) ==
    [kind |-> kind, has_index |-> has_index, index |-> index,
     has_start |-> has_start, start |-> start, selected_indices |-> indices]

NoResponse == Response("none", FALSE, 0, FALSE, 0, <<>>)

FailedResponses == {Response(k, FALSE, 0, FALSE, 0, <<>>) :
                        k \in {"error", "bad_json"}}

\* Indices the model may name for n candidates: 1..n, and 0 and n + 1 that
\* are out of range.
IndexChoices(n) == 0..(n + 1)

HabitResponses(n) ==
    FailedResponses
    \cup {Response("ok", FALSE, 0, FALSE, 0, q) :
              q \in SeqsUpTo(IndexChoices(n), MaxPicks)}

TaskResponses(n) ==
    FailedResponses
    \cup {Response("ok", TRUE, i, TRUE, t, <<>>) :
              i \in IndexChoices(n), t \in ProposalTimes}
    \cup {Response("ok", FALSE, 0, TRUE, t, <<>>) : t \in ProposalTimes}
    \cup {Response("ok", TRUE, i, FALSE, 0, <<>>) : i \in IndexChoices(n)}

TaskSlotResponses(n) ==
    FailedResponses
    \cup {Response("bad_type", FALSE, 0, FALSE, 0, <<>>)}
    \cup {Response("ok", TRUE, i, FALSE, 0, <<>>) : i \in IndexChoices(n)}
    \cup {Response("ok", FALSE, 0, FALSE, 0, <<>>)}

SelectInit ==
    /\ candidate_slots \in SeqsUpTo(CandidateChoices, MaxCandidates)
    /\ required_duration_minutes \in RequiredChoices
    /\ buffer_minutes \in BufferChoices
    /\ habit_definition \in HabitChoices
    /\ llm_response = NoResponse
    /\ selected_slots = <<>>
    /\ select_raised = FALSE
    /\ select_op = "none"

SelectIdle ==
    /\ candidate_slots = <<>>
    /\ required_duration_minutes = 0
    /\ buffer_minutes = 0
    /\ habit_definition = [has_num |-> FALSE, num_occurrences |-> 0,
                           frequency |-> "daily"]
    /\ llm_response = NoResponse
    /\ selected_slots = <<>>
    /\ select_raised = FALSE
    /\ select_op = "none"

\* select_slots with a habit_definition and no task_definition.
SelectSlotsHabit ==
    /\ select_op = "none"
    /\ \E resp \in HabitResponses(Len(candidate_slots)) :
          /\ llm_response' = resp
          /\ selected_slots' = select_slots(candidate_slots, FALSE,
                                   required_duration_minutes, buffer_minutes,
                                   NumSlotsToSelect(habit_definition), resp)
    /\ select_raised' = FALSE
    /\ select_op' = "habit"
    /\ UNCHANGED <<candidate_slots, required_duration_minutes, buffer_minutes,
                   habit_definition>>

\* select_slots with a task_definition (single-item mode).
SelectSlotsTask ==
    /\ select_op = "none"
    /\ \E resp \in TaskResponses(Len(candidate_slots)) :
          /\ llm_response' = resp
          /\ selected_slots' = select_slots(candidate_slots, TRUE,
                                   required_duration_minutes, 0, 1, resp)
    /\ select_raised' = FALSE
    /\ select_op' = "task"
    /\ UNCHANGED <<candidate_slots, required_duration_minutes, buffer_minutes,
                   habit_definition>>

\* select_task_slot, the selection node of the task flow.
SelectTaskSlot ==
    /\ select_op = "none"
    /\ \E resp \in TaskSlotResponses(Len(candidate_slots)) :
          /\ llm_response' = resp
          /\ LET r == select_task_slot(candidate_slots,
                                       required_duration_minutes, resp)
             IN /\ selected_slots' = r.selected
                /\ select_raised' = r.raised
    /\ select_op' = "task_slot"
    /\ UNCHANGED <<candidate_slots, required_duration_minutes, buffer_minutes,
                   habit_definition>>

----------------------------------------------------------------------------
\* SchedulerEngine.schedule_plan
\*
\* result is the SchedulingResult being built.  A decision-log entry is kept
\* as its step name and the count its details carry; a warning or an error
\* is kept as its kind.

\* Mutant: the new entry is put in front of the log.
Log_prepend(res, step, n) ==
    [res EXCEPT !.decision_log = <<[step |-> step, detail |-> n]>> \o @]

Log(res, step, n) ==
    [res EXCEPT !.decision_log = Append(@, [step |-> step, detail |-> n])]

AddError(res, kind) == [res EXCEPT !.errors = Append(@, kind)]

AddWarning(res, kind) == [res EXCEPT !.warnings = Append(@, kind)]

\* SchedulingResult(success=False)
NewResult ==
    [success |-> FALSE, events_created |-> <<>>, event_ids |-> <<>>,
     total_minutes_scheduled |-> 0, remaining_minutes |-> 0,
     decision_log |-> <<>>, warnings |-> <<>>, errors |-> <<>>]

\* _calculate_scheduling_window: (now, now + window_days)
WindowEnd(now, window_days) == now + window_days * Day

\* Steps 1 and 2 up to the list_events call.
LogUntilFetch(res, req) ==
    Log(Log(Log(res, "window_calculation", req.scheduling_window_days),
            "window_set", 0),
        "fetch_events", 0)

\* Mutant: the lists of the result are shared with the earlier invocation.
ResultAtEntry_shared(left_over) == [left_over EXCEPT !.success = FALSE]

\* result = SchedulingResult(success=False) at the top of schedule_plan:
\* a new object with new lists, whatever an earlier invocation left behind.
ResultAtEntry(left_over) == NewResult

\* The outer `except Exception` handler.
SchedulingFailed(res) ==
    Log(AddError(res, "scheduling_failed"), "scheduling_error", 0)

RECURSIVE SumSlotMinutes(_)
SumSlotMinutes(slots) ==
    IF slots = <<>> THEN 0
    ELSE Head(slots).duration_minutes + SumSlotMinutes(Tail(slots))

\* Mutant: leftover minutes are recorded as an error of the run.
AfterDistribution_error(res, planned, remaining, req) ==
    LET logged == Log(res, "events_distributed", Len(planned))
        noted == IF remaining > 0
                 THEN AddError(logged, "remaining_minutes")
                 ELSE logged
    IN IF planned = <<>>
       THEN AddError(noted, "no_events_scheduled")
       ELSE Log(noted, "create_events", Len(planned))

\* Mutant: an empty plan is not recorded as an error.
AfterDistribution_no_error(res, planned, remaining, req) ==
    LET logged == Log(res, "events_distributed", Len(planned))
        warned == IF remaining > 0
                  THEN AddWarning(logged, "remaining_minutes")
                  ELSE logged
    IN IF planned = <<>>
       THEN warned
       ELSE Log(warned, "create_events", Len(planned))

\* What schedule_plan records once distribute_events has returned: the
\* events_distributed entry, the warning for leftover minutes, and then the
\* error (no event planned) or the create_events entry.
AfterDistribution(res, planned, remaining, req) ==
    LET logged == Log(res, "events_distributed", Len(planned))
        warned == IF remaining > 0
                  THEN AddWarning(logged, "remaining_minutes")
                  ELSE logged
    IN IF planned = <<>>
       THEN AddError(warned, "no_events_scheduled")
       ELSE Log(warned, "create_events", Len(planned))

\* The assignments after the creation loop and the scheduling_complete entry.
Completed(res, created, remaining, req) ==
    Log([res EXCEPT !.events_created = created,
                    !.total_minutes_scheduled =
                        req.total_minutes_per_week - remaining,
                    !.remaining_minutes = remaining,
                    !.success = Len(created) > 0],
        "scheduling_complete", Len(created))

----------------------------------------------------------------------------
\* Inputs of schedule_plan

EngineMaxEvents == 2

\* Instants the existing calendar events start or end at: 01:00 .. 02:30.
EngineEventTimes == {3600, 5400, 7200, 9000}

EngineEvents == {iv \in Intervals(EngineEventTimes) : iv.start < iv.end}

\* datetime.now() when schedule_plan runs
NowChoices == {3600, 5430}

\* PlanRequirement: total_minutes_per_week > 0, 0 < min <= max, min_break >= 0,
\* 1 <= scheduling_window_days <= 365.  validate_total_minutes compares the
\* total with min_event_duration only when that field is already in
\* info.data, and the field is declared after the total: a total below the
\* minimum is an input schedule_plan can be given.
RequirementChoices ==
    [total_minutes_per_week : {20, 90, 100},
     min_event_duration : {30},
     max_event_duration : {45},
     min_break : {0, 15},
     scheduling_window_days : {1},
     preferred_time_windows : WindowChoices]

\* The create_event calls (by their number in the run) the calendar may
\* reject.
MaxFailingCall == 2

EngineInit ==
    /\ requirement \in RequirementChoices
    /\ existing_events \in SeqsUpTo(EngineEvents, EngineMaxEvents)
    /\ now_time \in NowChoices
    /\ list_events_raises \in BOOLEAN
    /\ create_failures \in SUBSET (1..MaxFailingCall)
    /\ result = NewResult
    /\ engine_free_slots = <<>>
    /\ planned_events = <<>>
    /\ engine_remaining = 0
    /\ created_events = <<>>
    /\ create_calls = 0
    /\ engine_pc = "start"
    /\ engine_run = 1
    /\ first_result = NewResult

EngineIdle ==
    /\ requirement = [total_minutes_per_week |-> 0, min_event_duration |-> 0,
                      max_event_duration |-> 0, min_break |-> 0,
                      scheduling_window_days |-> 0,
                      preferred_time_windows |-> <<>>]
    /\ existing_events = <<>>
    /\ now_time = 0
    /\ result = NewResult
    /\ engine_free_slots = <<>>
    /\ planned_events = <<>>
    /\ engine_remaining = 0
    /\ created_events = <<>>
    /\ create_calls = 0
    /\ engine_pc = "idle"
    /\ list_events_raises = FALSE
    /\ create_failures = {}
    /\ engine_run = 0
    /\ first_result = NewResult

engine_inputs == <<requirement, existing_events, now_time,
                   list_events_raises, create_failures>>

\* Steps 1-2: the window is computed and list_events returns the events.
EngineFetchEvents ==
    /\ engine_pc = "start"
    /\ ~list_events_raises
    /\ result' = Log(LogUntilFetch(result, requirement),
                     "events_fetched", Len(existing_events))
    /\ engine_pc' = "find_slots"
    /\ UNCHANGED <<engine_inputs, engine_run, first_result, engine_free_slots, planned_events,
                   engine_remaining, created_events, create_calls>>

\* Steps 1-2 when list_events raises: the outer handler records the failure
\* and the result is returned.
EngineFetchRaises ==
    /\ engine_pc = "start"
    /\ list_events_raises
    /\ result' = SchedulingFailed(LogUntilFetch(result, requirement))
    /\ engine_pc' = "returned"
    /\ UNCHANGED <<engine_inputs, engine_run, first_result, engine_free_slots, planned_events,
                   engine_remaining, created_events, create_calls>>

\* Step 3: find_free_slots, and the early return when no slot is found.
EngineFindSlots ==
    /\ engine_pc = "find_slots"
    /\ LET slots == find_free_slots(existing_events, now_time,
                        WindowEnd(now_time, requirement.scheduling_window_days),
                        requirement.preferred_time_windows,
                        requirement.min_event_duration)
           logged == Log(Log(result, "find_slots",
                             requirement.min_event_duration),
                         "slots_found", Len(slots))
       IN /\ engine_free_slots' = slots
          /\ IF slots = <<>>
             THEN /\ result' = Log(AddError(logged, "no_slots"), "no_slots", 0)
                  /\ engine_pc' = "returned"
             ELSE /\ result' = logged
                  /\ engine_pc' = "distribute"
    /\ UNCHANGED <<engine_inputs, engine_run, first_result, planned_events, engine_remaining,
                   created_events, create_calls>>

\* Step 4: distribute_events, the warning for leftover minutes, and the early
\* return when no event could be planned.
EngineDistribute ==
    /\ engine_pc = "distribute"
    /\ LET r == distribute_events(engine_free_slots,
                                  requirement.total_minutes_per_week,
                                  requirement.min_event_duration,
                                  requirement.max_event_duration,
                                  requirement.min_break)
       IN /\ planned_events' = r.events
          /\ engine_remaining' = r.remaining
          /\ result' = AfterDistribution(
                           Log(result, "distribute_events",
                               requirement.total_minutes_per_week),
                           r.events, r.remaining, requirement)
          /\ engine_pc' = IF r.events = <<>> THEN "returned" ELSE "create"
    /\ UNCHANGED <<engine_inputs, engine_run, first_result, engine_free_slots, created_events,
                   create_calls>>

\* Step 5, one iteration: create_event returns the created event.
EngineCreateEvent ==
    /\ engine_pc = "create"
    /\ create_calls < Len(planned_events)
    /\ (create_calls + 1) \notin create_failures
    /\ LET ev == planned_events[create_calls + 1]
       IN /\ created_events' = Append(created_events, ev)
          /\ result' = Log([result EXCEPT !.event_ids =
                                              Append(@, create_calls + 1)],
                           "event_created", create_calls + 1)
    /\ create_calls' = create_calls + 1
    /\ UNCHANGED <<engine_inputs, engine_run, first_result, engine_free_slots, planned_events,
                   engine_remaining, engine_pc>>

\* Step 5, one iteration: create_event raises; the inner handler records it
\* and the loop goes on.
EngineCreateEventFails ==
    /\ engine_pc = "create"
    /\ create_calls < Len(planned_events)
    /\ (create_calls + 1) \in create_failures
    /\ result' = Log(AddError(result, "create_failed"),
                     "event_creation_failed", create_calls + 1)
    /\ create_calls' = create_calls + 1
    /\ UNCHANGED <<engine_inputs, engine_run, first_result, engine_free_slots, planned_events,
                   engine_remaining, created_events, engine_pc>>

\* After the loop: the summary fields are set and the result is returned.
EngineComplete ==
    /\ engine_pc = "create"
    /\ create_calls = Len(planned_events)
    /\ result' = Completed(result, created_events, engine_remaining,
                           requirement)
    /\ engine_pc' = "returned"
    /\ UNCHANGED <<engine_inputs, engine_run, first_result, engine_free_slots, planned_events,
                   engine_remaining, created_events, create_calls>>

------------------------------------------------------------

\* The caller invokes schedule_plan once more with the same requirement,
\* at the same instant of the clock, the calendar answering as before.
EngineInvokeAgain ==
    /\ engine_pc = "returned"
    /\ engine_run = 1
    /\ first_result' = result
    /\ result' = ResultAtEntry(result)
    /\ engine_free_slots' = <<>>
    /\ planned_events' = <<>>
    /\ engine_remaining' = 0
    /\ created_events' = <<>>
    /\ create_calls' = 0
    /\ engine_pc' = "start"
    /\ engine_run' = 2
    /\ UNCHANGED engine_inputs

----------------
\* filter_task_slots (agent node, task flow)

\* One iteration of the for loop over free_slots: the candidate of one slot,
\* if it gets one.  due is [set, at]: a due date that is missing or cannot
\* be parsed leaves due_datetime None.
TaskCandidate(slot, required, due) ==
    IF slot.duration_minutes < required THEN <<>>
    ELSE IF due.set /\ slot.start > due.at THEN <<>>
    ELSE LET duration0 == Min2(required, slot.duration_minutes)
             end0 == slot.start + duration0 * Minute
             clipped == end0 > slot.end
             event_end == IF clipped THEN slot.end ELSE end0
             event_duration == IF clipped
                               THEN TruncDiv(event_end - slot.start, Minute)
                               ELSE duration0
         IN IF event_duration >= required
            THEN <<[start |-> slot.start, end |-> event_end,
                    duration_minutes |-> event_duration]>>
            ELSE <<>>

RECURSIVE filter_task_slots(_, _, _)
filter_task_slots(free_slots, required, due) ==
    IF free_slots = <<>> THEN <<>>
    ELSE TaskCandidate(Head(free_slots), required, due)
         \o filter_task_slots(Tail(free_slots), required, due)

\* Inputs of filter_task_slots
TaskDurations == {30, 60}

NoDue == [set |-> FALSE, at |-> 0]

\* No due date, or one at 22:50, 23:30 or 00:30.
DueChoices == {NoDue} \cup {[set |-> TRUE, at |-> t] : t \in {82200, 84600, 88200}}

TaskInit ==
    /\ task_free_slots \in SeqsUpTo(SlotChoices, MaxSlots)
    /\ task_duration \in TaskDurations
    /\ task_due \in DueChoices
    /\ task_candidates = <<>>
    /\ task_done = 0

TaskIdle ==
    /\ task_free_slots = <<>>
    /\ task_duration = 0
    /\ task_due = NoDue
    /\ task_candidates = <<>>
    /\ task_done = 0

\* The agent node: reads free_time_slots and task_definition, writes
\* filtered_slots.
FilterTaskSlots ==
    /\ task_done = 0
    /\ task_candidates' = filter_task_slots(task_free_slots, task_duration,
                                            task_due)
    /\ task_done' = 1
    /\ UNCHANGED <<task_free_slots, task_duration, task_due>>

\* The node run again on the same state (the graph routes
\* CHANGES_REQUESTED_TASK back to it).
FilterTaskSlotsAgain ==
    /\ task_done = 1
    /\ task_candidates' = filter_task_slots(task_free_slots, task_duration,
                                            task_due)
    /\ task_done' = 2
    /\ UNCHANGED <<task_free_slots, task_duration, task_due>>

----------------------------------------------------------------------------
\* The agent graph: create_agent and the routers
\*
\* agent_state keeps the fields of the AgentState that decide the route:
\* task_definition and habit_definition as their truth value, selected_slots
\* and created_events as their length; "none" is a key that is not set.

Nodes ==
    {"intent_classifier", "habit_planner", "execution_decider",
     "clarification_agent", "explanation_agent", "task_analyzer",
     "update_task_due_date", "fetch_calendar_events",
     "normalize_calendar_events", "compute_free_slots", "filter_slots",
     "filter_task_slots", "select_slots", "select_task_slot",
     "approval_node", "create_calendar_events", "post_schedule_summary"}

route_by_intent(state) == state.intent_type

route_by_plan_status(state) == state.plan_status

route_by_execution_decision(state) == state.execution_decision

route_by_task_or_habit(state) ==
    IF state.task_definition THEN "filter_task_slots" ELSE "filter_slots"

\* Mutant: a pending approval is routed like a granted one.
route_by_approval_state_pending_passes(state) ==
    IF state.approval_state \in {"none", "PENDING"} THEN "APPROVED"
    ELSE IF state.approval_state = "CHANGES_REQUESTED"
    THEN IF state.task_definition THEN "CHANGES_REQUESTED_TASK"
         ELSE "CHANGES_REQUESTED_HABIT"
    ELSE IF state.approval_state = "REJECTED"
    THEN IF state.task_definition THEN "REJECTED_TASK" ELSE "REJECTED"
    ELSE state.approval_state

route_by_approval_state(state) ==
    LET approval_state == IF state.approval_state = "none" THEN "PENDING"
                          ELSE state.approval_state
    IN IF approval_state = "CHANGES_REQUESTED"
       THEN IF state.task_definition THEN "CHANGES_REQUESTED_TASK"
            ELSE "CHANGES_REQUESTED_HABIT"
       ELSE IF approval_state = "REJECTED"
       THEN IF state.task_definition THEN "REJECTED_TASK" ELSE "REJECTED"
       ELSE approval_state

\* The path maps of the conditional edges.
IntentEdges(label) ==
    CASE label = "HABIT_SCHEDULE" -> "habit_planner"
      [] label = "TASK_SCHEDULE" -> "task_analyzer"
      [] label = "CALENDAR_ANALYSIS" -> "END"
      [] label = "UNKNOWN" -> "clarification_agent"

PlanEdges(label) ==
    CASE label = "PLAN_READY" -> "execution_decider"
      [] label = "NEEDS_CLARIFICATION" -> "clarification_agent"
      [] label = "PLAN_INFEASIBLE" -> "explanation_agent"

ExecutionEdges(label) ==
    CASE label = "EXECUTE" -> "fetch_calendar_events"
      [] label = "DRY_RUN" -> "explanation_agent"
      [] label = "CANCEL" -> "END"

ApprovalEdges(label) ==
    CASE label = "APPROVED" -> "create_calendar_events"
      [] label = "REJECTED" -> "execution_decider"
      [] label = "REJECTED_TASK" -> "END"
      [] label = "CHANGES_REQUESTED_TASK" -> "filter_task_slots"
      [] label = "CHANGES_REQUESTED_HABIT" -> "filter_slots"
      [] label = "PENDING" -> "END"

\* What approval_node returns as approval_state.
approval_node(state) ==
    IF state.approval_state \in {"APPROVED", "REJECTED", "CHANGES_REQUESTED"}
    THEN state.approval_state
    ELSE IF state.selected_slots = 0 THEN "REJECTED"
    ELSE "PENDING"

----------------------------------------------------------------------------
\* Inputs of one invocation of the graph

\* Node executions counted per node; the count stays at the cap beyond it.
MaxRunsCounted == 2

\* Slots a selector can hand to approval_node.
MaxSelected == 2

IntentTypes == {"HABIT_SCHEDULE", "TASK_SCHEDULE", "CALENDAR_ANALYSIS",
                "UNKNOWN"}

PlanStatuses == {"PLAN_READY", "NEEDS_CLARIFICATION", "PLAN_INFEASIBLE"}

ExecutionDecisions == {"EXECUTE", "DRY_RUN", "CANCEL"}

\* chat_request.approval_state: one of the four values, or not given.
ApprovalInputs == {"none", "PENDING", "APPROVED", "REJECTED",
                   "CHANGES_REQUESTED"}

\* The initial_state chat() builds: a new conversation, or the state of an
\* earlier invocation the caller sends back, with the approval fields of
\* the request merged in.
AgentInit ==
    /\ agent_state \in [intent_type : {"none"},
                        plan_status : {"none"} \cup PlanStatuses,
                        execution_decision : {"none"},
                        task_definition : BOOLEAN,
                        habit_definition : BOOLEAN,
                        approval_state : ApprovalInputs,
                        selected_slots : 0..MaxSelected,
                        created_events : {0}]
    /\ agent_pc = "intent_classifier"
    /\ node_runs = [n \in Nodes |-> 0]

AgentIdle ==
    /\ agent_state = [intent_type |-> "none", plan_status |-> "none",
                      execution_decision |-> "none",
                      task_definition |-> FALSE, habit_definition |-> FALSE,
                      approval_state |-> "none", selected_slots |-> 0,
                      created_events |-> 0]
    /\ agent_pc = "idle"
    /\ node_runs = [n \in Nodes |-> 0]

\* The node the graph routed to is run once more.
Ran(node) ==
    /\ agent_pc = node
    /\ node_runs' = [node_runs EXCEPT ![node] = Min2(@ + 1, MaxRunsCounted)]

NodeIntentClassifier ==
    /\ Ran("intent_classifier")
    /\ \E intent \in IntentTypes :
          /\ agent_state' = [agent_state EXCEPT !.intent_type = intent]
          /\ agent_pc' = IntentEdges(route_by_intent(agent_state'))

\* The plan the model returns is stored with the status it names; a failed
\* call or an unreadable answer asks for clarification with an empty plan.
NodeHabitPlanner ==
    /\ Ran("habit_planner")
    /\ IF agent_state.intent_type # "HABIT_SCHEDULE"
       THEN agent_state' = [agent_state EXCEPT
                                !.plan_status = "PLAN_INFEASIBLE",
                                !.habit_definition = FALSE]
       ELSE \/ \E status \in PlanStatuses :
                  agent_state' = [agent_state EXCEPT
                                      !.plan_status = status,
                                      !.habit_definition = TRUE]
            \/ agent_state' = [agent_state EXCEPT
                                   !.plan_status = "NEEDS_CLARIFICATION",
                                   !.habit_definition = FALSE]
    /\ agent_pc' = PlanEdges(route_by_plan_status(agent_state'))

NodeExecutionDecider ==
    /\ Ran("execution_decider")
    /\ IF \/ agent_state.plan_status # "PLAN_READY"
          \/ ~(agent_state.habit_definition \/ agent_state.task_definition)
       THEN agent_state' = [agent_state EXCEPT
                                !.execution_decision = "CANCEL"]
       ELSE \E decision \in ExecutionDecisions :
               agent_state' = [agent_state EXCEPT
                                   !.execution_decision = decision]
    /\ agent_pc' = ExecutionEdges(route_by_execution_decision(agent_state'))

NodeClarificationAgent ==
    /\ Ran("clarification_agent")
    /\ agent_pc' = "END"
    /\ UNCHANGED agent_state

NodeExplanationAgent ==
    /\ Ran("explanation_agent")
    /\ agent_pc' = "END"
    /\ UNCHANGED agent_state

\* Without task_data nothing is written; otherwise a task_definition is,
\* from the model's answer or from the defaults.
NodeTaskAnalyzer ==
    /\ Ran("task_analyzer")
    /\ \E has_task_data \in BOOLEAN :
          agent_state' = IF has_task_data
                         THEN [agent_state EXCEPT !.task_definition = TRUE]
                         ELSE agent_state
    /\ agent_pc' = "update_task_due_date"

NodeUpdateTaskDueDate ==
    /\ Ran("update_task_due_date")
    /\ agent_pc' = "fetch_calendar_events"
    /\ UNCHANGED agent_state

NodeFetchCalendarEvents ==
    /\ Ran("fetch_calendar_events")
    /\ agent_pc' = "normalize_calendar_events"
    /\ UNCHANGED agent_state

NodeNormalizeCalendarEvents ==
    /\ Ran("normalize_calendar_events")
    /\ agent_pc' = "compute_free_slots"
    /\ UNCHANGED agent_state

NodeComputeFreeSlots ==
    /\ Ran("compute_free_slots")
    /\ agent_pc' = route_by_task_or_habit(agent_state)
    /\ UNCHANGED agent_state

NodeFilterSlots ==
    /\ Ran("filter_slots")
    /\ agent_pc' = "select_slots"
    /\ UNCHANGED agent_state

NodeFilterTaskSlots ==
    /\ Ran("filter_task_slots")
    /\ agent_pc' = "select_task_slot"
    /\ UNCHANGED agent_state

\* The selectors write selected_slots: as many slots as the calendar and the
\* ranking model allow.
NodeSelectSlots ==
    /\ Ran("select_slots")
    /\ \E n \in 0..MaxSelected :
          agent_state' = [agent_state EXCEPT !.selected_slots = n]
    /\ agent_pc' = "approval_node"

NodeSelectTaskSlot ==
    /\ Ran("select_task_slot")
    /\ \E n \in 0..1 :
          agent_state' = [agent_state EXCEPT !.selected_slots = n]
    /\ agent_pc' = "approval_node"

NodeApproval ==
    /\ Ran("approval_node")
    /\ agent_state' = [agent_state EXCEPT
                           !.approval_state = approval_node(agent_state)]
    /\ agent_pc' = ApprovalEdges(route_by_approval_state(agent_state'))

\* One tool call per selected slot; the slots whose call fails are skipped.
NodeCreateCalendarEvents ==
    /\ Ran("create_calendar_events")
    /\ \E created \in 0..agent_state.selected_slots :
          agent_state' = [agent_state EXCEPT !.created_events = created]
    /\ agent_pc' = "post_schedule_summary"

NodePostScheduleSummary ==
    /\ Ran("post_schedule_summary")
    /\ agent_pc' = "END"
    /\ UNCHANGED agent_state

----------------------------------------------------------------------------
\* Specifications: one per component, the other components idle.

other_than_free == <<slots_vars, select_vars, engine_vars, task_vars,
                     agent_vars>>
other_than_slots == <<free_vars, select_vars, engine_vars, task_vars,
                      agent_vars>>
other_than_select == <<free_vars, slots_vars, engine_vars, task_vars,
                       agent_vars>>
other_than_engine == <<free_vars, slots_vars, select_vars, task_vars,
                       agent_vars>>
other_than_agent == <<free_vars, slots_vars, select_vars, engine_vars,
                      task_vars>>
other_than_task == <<free_vars, slots_vars, select_vars, engine_vars,
                     agent_vars>>

InitFree ==
    FreeInit /\ SlotsIdle /\ SelectIdle /\ EngineIdle /\ TaskIdle /\ AgentIdle

NextFree ==
    \/ ComputeFreeSlots /\ UNCHANGED other_than_free
    \/ FindFreeSlots /\ UNCHANGED other_than_free

SpecFree == InitFree /\ [][NextFree]_vars

InitSlots ==
    SlotsInit /\ FreeIdle /\ SelectIdle /\ EngineIdle /\ TaskIdle /\ AgentIdle

NextSlots ==
    \/ FilterSlots /\ UNCHANGED other_than_slots
    \/ FilterSlotsNoMax /\ UNCHANGED other_than_slots
    \/ DistributeEvents /\ UNCHANGED other_than_slots

SpecSlots == InitSlots /\ [][NextSlots]_vars

InitSelect ==
    SelectInit /\ FreeIdle /\ SlotsIdle /\ EngineIdle /\ TaskIdle /\ AgentIdle

NextSelect ==
    \/ SelectSlotsHabit /\ UNCHANGED other_than_select
    \/ SelectSlotsTask /\ UNCHANGED other_than_select
    \/ SelectTaskSlot /\ UNCHANGED other_than_select

SpecSelect == InitSelect /\ [][NextSelect]_vars

InitEngine ==
    EngineInit /\ FreeIdle /\ SlotsIdle /\ SelectIdle /\ TaskIdle /\ AgentIdle

NextEngine ==
    \/ EngineFetchEvents /\ UNCHANGED other_than_engine
    \/ EngineFetchRaises /\ UNCHANGED other_than_engine
    \/ EngineFindSlots /\ UNCHANGED other_than_engine
    \/ EngineDistribute /\ UNCHANGED other_than_engine
    \/ EngineCreateEvent /\ UNCHANGED other_than_engine
    \/ EngineCreateEventFails /\ UNCHANGED other_than_engine
    \/ EngineComplete /\ UNCHANGED other_than_engine
    \/ EngineInvokeAgain /\ UNCHANGED other_than_engine

SpecEngine == InitEngine /\ [][NextEngine]_vars

InitAgent ==
    AgentInit /\ FreeIdle /\ SlotsIdle /\ SelectIdle /\ EngineIdle /\ TaskIdle

NextAgent ==
    \/ NodeIntentClassifier /\ UNCHANGED other_than_agent
    \/ NodeHabitPlanner /\ UNCHANGED other_than_agent
    \/ NodeExecutionDecider /\ UNCHANGED other_than_agent
    \/ NodeClarificationAgent /\ UNCHANGED other_than_agent
    \/ NodeExplanationAgent /\ UNCHANGED other_than_agent
    \/ NodeTaskAnalyzer /\ UNCHANGED other_than_agent
    \/ NodeUpdateTaskDueDate /\ UNCHANGED other_than_agent
    \/ NodeFetchCalendarEvents /\ UNCHANGED other_than_agent
    \/ NodeNormalizeCalendarEvents /\ UNCHANGED other_than_agent
    \/ NodeComputeFreeSlots /\ UNCHANGED other_than_agent
    \/ NodeFilterSlots /\ UNCHANGED other_than_agent
    \/ NodeFilterTaskSlots /\ UNCHANGED other_than_agent
    \/ NodeSelectSlots /\ UNCHANGED other_than_agent
    \/ NodeSelectTaskSlot /\ UNCHANGED other_than_agent
    \/ NodeApproval /\ UNCHANGED other_than_agent
    \/ NodeCreateCalendarEvents /\ UNCHANGED other_than_agent
    \/ NodePostScheduleSummary /\ UNCHANGED other_than_agent

SpecAgent == InitAgent /\ [][NextAgent]_vars

InitTask ==
    TaskInit /\ FreeIdle /\ SlotsIdle /\ SelectIdle /\ EngineIdle /\ AgentIdle

NextTask ==
    \/ FilterTaskSlots /\ UNCHANGED other_than_task
    \/ FilterTaskSlotsAgain /\ UNCHANGED other_than_task

SpecTask == InitTask /\ [][NextTask]_vars

\* app.invoke runs the node the graph routed to, until END: a node that is
\* due is run.
SpecAgentFair == SpecAgent /\ WF_vars(NextAgent)

----------------------------------------------------------------------------
\* Properties of the free-time computation

\* Every instant an input or an output of the computation can start or end at.
GridPoints == EventTimes \cup WindowStarts \cup WindowEnds
              \cup {RoundToHour(t) : t \in WindowStarts}

Covers(iv, t) == iv.start <= t /\ t < iv.end

PairwiseDisjoint(slots) ==
    \A i, j \in 1..Len(slots) :
        i < j => (slots[i].end <= slots[j].start \/ slots[j].end <= slots[i].start)

BusyAt(t) ==
    \E i \in 1..Len(calendar_events_normalized) :
        Covers(calendar_events_normalized[i], t)

FreeCount(slots, t) == Cardinality({i \in 1..Len(slots) : Covers(slots[i], t)})

\* C1: the free slots written by compute_free_slots are pairwise
\* non-overlapping, each lies inside the window [start_date, end_date), and
\* together with the busy periods they cover every instant of the window
\* exactly once (an instant is busy, or in exactly one free slot, never both).
\* All interval ends lie on GridPoints, so the instants of GridPoints stand
\* for every instant of the window.
C1_FreeTimeCoverage ==
    "computed" \in free_done =>
        /\ PairwiseDisjoint(free_time_slots)
        /\ \A i \in 1..Len(free_time_slots) :
               /\ start_date <= free_time_slots[i].start
               /\ free_time_slots[i].end <= end_date
        /\ \A t \in GridPoints :
               (start_date <= t /\ t < end_date) =>
                   IF BusyAt(t) THEN FreeCount(free_time_slots, t) = 0
                   ELSE FreeCount(free_time_slots, t) = 1

\* C2: with no busy periods the free-time computation returns exactly one
\* free slot, which starts at the window start and ends at the window end
\* (compute_free_slots; find_free_slots with no preferred windows and a
\* window at least min_duration_minutes long).
C2_NoBusyPeriodsSingleSlot ==
    /\ ("computed" \in free_done /\ calendar_events_normalized = <<>>) =>
           /\ Len(free_time_slots) = 1
           /\ free_time_slots[1].start = start_date
           /\ free_time_slots[1].end = end_date
    /\ ("found" \in free_done /\ calendar_events_normalized = <<>>
           /\ preferred_time_windows = <<>>
           /\ end_date - start_date >= min_duration_minutes * Minute) =>
           /\ Len(finder_slots) = 1
           /\ finder_slots[1].start = start_date
           /\ finder_slots[1].end = end_date

----------------------------------------------------------------------------
\* Properties of the constraint filter and of the distributor

BufferKept(events, brk) ==
    \A k \in 1..(Len(events) - 1) :
        events[k + 1].start_time - events[k].end_time >= brk * Minute

C5_DurationWithinMinMax ==
    /\ min_event_duration <= max_event_duration
    /\ "filtered" \in slots_done =>
           \A i \in 1..Len(filtered_slots) :
               /\ filtered_slots[i].duration_minutes >= min_event_duration
               /\ filtered_slots[i].duration_minutes <= max_event_duration
    /\ "distributed" \in slots_done =>
           \A i \in 1..Len(scheduled_events) :
               /\ scheduled_events[i].duration_minutes >= min_event_duration
               /\ scheduled_events[i].duration_minutes <= max_event_duration

\* Both operations ran; the filter carved a slot into a full-length candidate
\* and a shorter one, and the distributor placed two events.
C5_Witness ==
    /\ slots_done = {"filtered", "distributed"}
    /\ \E i, j \in 1..Len(filtered_slots) :
           /\ filtered_slots[i].duration_minutes = max_event_duration
           /\ filtered_slots[j].duration_minutes < max_event_duration
    /\ Len(scheduled_events) = 2

RECURSIVE SumDurations(_)
SumDurations(events) ==
    IF events = <<>> THEN 0
    ELSE Head(events).duration_minutes + SumDurations(Tail(events))

\* The slots of the example: 50 and 60 minutes, 40 minutes apart.
ExampleSlots == <<TimeSlot(79200, 82200), TimeSlot(84600, 88200)>>

IsExample ==
    /\ available_slots = ExampleSlots
    /\ total_minutes = 100
    /\ min_event_duration = 30
    /\ max_event_duration = 45
    /\ min_break = 10

\* C8: after distribute_events, remaining_minutes = total_minutes - (sum of
\* the event durations) and 0 <= remaining_minutes <= total_minutes; in the
\* example (total 100, min 30, max 45, break 10, slots of 50 and 60 minutes)
\* two 45-minute events are returned and 10 minutes remain.
C8_RemainingAccounted ==
    "distributed" \in slots_done =>
        /\ remaining_minutes = total_minutes - SumDurations(scheduled_events)
        /\ 0 <= remaining_minutes
        /\ remaining_minutes <= total_minutes
        /\ IsExample =>
               /\ Len(scheduled_events) = 2
               /\ scheduled_events[1].duration_minutes = 45
               /\ scheduled_events[2].duration_minutes = 45
               /\ remaining_minutes = 10

\* The example was run and left minutes unplaced.
C8_Witness ==
    /\ "distributed" \in slots_done
    /\ IsExample
    /\ remaining_minutes > 0

----------------------------------------------------------------------------
\* Properties of the selection

\* C4: any two consecutive slots of the habit (recurring-mode) output of
\* select_slots are at least buffer_minutes apart, end to start, whatever
\* the ranking model answered.
C4_HabitBufferKept ==
    select_op = "habit" =>
        \A k \in 1..(Len(selected_slots) - 1) :
            selected_slots[k + 1].start - selected_slots[k].end
                >= buffer_minutes * Minute

LongEnough == {i \in 1..Len(candidate_slots) :
                  candidate_slots[i].duration_minutes
                      >= required_duration_minutes}

\* The start of the earliest candidate that satisfies the duration.
EarliestStart ==
    CHOOSE t \in {candidate_slots[i].start : i \in LongEnough} :
        \A i \in LongEnough : t <= candidate_slots[i].start

IndexInRange == llm_response.has_index
                /\ llm_response.index \in 1..Len(candidate_slots)

\* The ranking model gave no usable proposal: it raised or timed out, its
\* answer was malformed, or the proposal is missing or out of range.
NoUsableProposal ==
    \/ llm_response.kind \in {"error", "bad_json", "bad_type"}
    \/ ~IndexInRange
    \/ (select_op = "task" /\ ~llm_response.has_start)

\* C6: in single-item selection (select_slots in task mode, select_task_slot),
\* when the ranking model gives no usable proposal and some candidate
\* satisfies the required duration, the selector returns exactly one
\* placement, at the earliest candidate that satisfies the duration.
C6_FallbackNeverSkipped ==
    (select_op \in {"task", "task_slot"} /\ NoUsableProposal /\ LongEnough # {})
    => /\ ~select_raised
       /\ Len(selected_slots) = 1
       /\ selected_slots[1].start = EarliestStart

Within(p, c) == c.start <= p.start /\ p.end <= c.end

\* The free slot a usable proposal names (indices are 1-based, in start order).
ProposedSlot == SortByStart(candidate_slots)[llm_response.index]

Fits(c) == c.end - c.start >= required_duration_minutes * Minute

UsableTaskProposal ==
    /\ llm_response.kind = "ok"
    /\ IndexInRange
    /\ llm_response.has_start

\* C7: in single-item mode the placement select_slots returns has exactly the
\* required duration and lies within a free slot.  For a usable proposal
\* whose slot can hold the task, the placement lies within that slot: a
\* proposal that fits is taken as it is, one that overflows the slot end is
\* shifted back to end at the slot end.  When the slot cannot hold the task,
\* the earliest candidate that satisfies the duration is used instead.
C7_ProposalValidated ==
    select_op = "task" =>
        /\ Len(selected_slots) <= 1
        /\ \A k \in 1..Len(selected_slots) :
               /\ selected_slots[k].end - selected_slots[k].start
                      = required_duration_minutes * Minute
               /\ selected_slots[k].duration_minutes = required_duration_minutes
               /\ \E i \in 1..Len(candidate_slots) :
                      Within(selected_slots[k], candidate_slots[i])
        /\ UsableTaskProposal =>
               LET c == ProposedSlot
                   t == llm_response.start
                   d == required_duration_minutes * Minute
               IN IF Fits(c)
                  THEN /\ Len(selected_slots) = 1
                       /\ Within(selected_slots[1], c)
                       /\ (c.start <= t /\ t + d <= c.end)
                              => selected_slots[1].start = t
                       /\ (c.start <= t /\ t + d > c.end)
                              => selected_slots[1].end = c.end
                  ELSE IF LongEnough = {} THEN selected_slots = <<>>
                  ELSE /\ Len(selected_slots) = 1
                       /\ selected_slots[1].start = EarliestStart

\* A proposal that overflowed its slot end was shifted back.
C7_Witness ==
    /\ select_op = "task"
    /\ UsableTaskProposal
    /\ Fits(ProposedSlot)
    /\ ProposedSlot.start <= llm_response.start
    /\ llm_response.start + required_duration_minutes * Minute > ProposedSlot.end
    /\ Len(selected_slots) = 1
    /\ selected_slots[1].end = ProposedSlot.end
    /\ selected_slots[1].start < llm_response.start

----------------------------------------------------------------------------
\* Properties of schedule_plan

Count(s, x) == Cardinality({i \in 1..Len(s) : s[i] = x})

\* Distribution placed at least one event and left minutes over.
PartialDistribution ==
    /\ engine_pc \in {"create", "returned"}
    /\ planned_events # <<>>
    /\ engine_remaining > 0

\* C9: when distribution places at least one event and leaves
\* remaining_minutes > 0, schedule_plan records one warning for it and no
\* error (the only errors are those of failed create_event calls), goes on
\* to call create_event for every planned event, and returns the positive
\* remaining_minutes in the result.
C9_LeftoverIsWarning ==
    PartialDistribution =>
        /\ Count(result.warnings, "remaining_minutes") = 1
        /\ \A i \in 1..Len(result.errors) : result.errors[i] = "create_failed"
        /\ Len(result.errors) = create_calls - Len(created_events)
        /\ engine_pc = "returned" =>
               /\ create_calls = Len(planned_events)
               /\ result.remaining_minutes = engine_remaining
               /\ result.remaining_minutes > 0

\* A run that left minutes over returned, every planned event created.
C9_Witness ==
    /\ PartialDistribution
    /\ engine_pc = "returned"
    /\ Len(created_events) = Len(planned_events)
    /\ result.success

\* The outcome the returned result reports through its summary fields.
ReportedOutcome ==
    IF ~result.success THEN "FAILED"
    ELSE IF result.remaining_minutes = 0 THEN "SUCCESS"
    ELSE "PARTIAL"

\* The outcome of the run: what was placed on the calendar.
ActualOutcome ==
    IF created_events = <<>> THEN "FAILED"
    ELSE IF SumDurations(created_events) = requirement.total_minutes_per_week
    THEN "SUCCESS"
    ELSE "PARTIAL"

\* C10: the result schedule_plan returns reports FAILED when no placement
\* was made, SUCCESS when all requested minutes were placed, and PARTIAL
\* otherwise; a partial placement is never reported as full success or as
\* full failure.
C10_OutcomeClassified ==
    engine_pc = "returned" => ReportedOutcome = ActualOutcome

\* The decision log holds an entry of this step with this count.
Logged(step, n) ==
    \E i \in 1..Len(result.decision_log) :
        result.decision_log[i] = [step |-> step, detail |-> n]

\* schedule_plan returned after find_free_slots found no slot.
NoSlotFound == engine_pc = "returned" /\ Logged("slots_found", 0)

\* schedule_plan returned after distribute_events placed no event.
NoEventPlaced == engine_pc = "returned" /\ Logged("events_distributed", 0)

\* C11: when no free slot is found, or no event can be placed in the slots
\* found, schedule_plan returns a failed result (success = false) that
\* carries an error entry, and create_event is never called.
C11_NothingPlacedIsFailure ==
    (NoSlotFound \/ NoEventPlaced) =>
        /\ ~result.success
        /\ result.errors # <<>>
        /\ create_calls = 0
        /\ created_events = <<>>
        /\ result.events_created = <<>>
        /\ result.event_ids = <<>>

\* Free slots were found and the distributor placed nothing in them.
C11_Witness ==
    /\ NoEventPlaced
    /\ engine_free_slots # <<>>
    /\ result.errors = <<"no_events_scheduled">>

\* The other case of C11: the window holds no free slot at all.
C11_NoSlotReached ==
    /\ NoSlotFound
    /\ result.errors = <<"no_slots">>

\* The i-th create_event call of the run raised.
CreationFailed(i) == Logged("event_creation_failed", i)

\* C12: when the creation of one event fails, a warning is recorded for
\* that event and nothing is added to the errors of the run, and every
\* remaining planned event is still attempted: a run that entered the
\* creation loop returns only after one create_event call per planned
\* event, through the normal completion.
C12_CreationFailureIsWarning ==
    /\ \A i \in 1..create_calls :
           CreationFailed(i) =>
               /\ Count(result.warnings, "create_failed") >= 1
               /\ Count(result.errors, "create_failed") = 0
    /\ (engine_pc = "returned" /\ planned_events # <<>>) =>
           /\ create_calls = Len(planned_events)
           /\ Logged("scheduling_complete", Len(created_events))
           /\ Count(result.errors, "scheduling_failed") = 0

----------------------------------------------------------------------------
\* Properties of the agent graph

\* C13: create_calendar_events is due, or has run, only when the
\* approval_node that ran before it returned approval_state = APPROVED;
\* while approval_state is PENDING, REJECTED or CHANGES_REQUESTED (or was
\* never set) no calendar event has been created.
C13_CreateOnlyWhenApproved ==
    /\ (\/ agent_pc = "create_calendar_events"
        \/ node_runs["create_calendar_events"] > 0) =>
           /\ node_runs["approval_node"] > 0
           /\ agent_state.approval_state = "APPROVED"
    /\ agent_state.approval_state # "APPROVED" =>
           agent_state.created_events = 0

\* An approved run created its events and ended.
C13_Witness ==
    /\ agent_pc = "END"
    /\ node_runs["create_calendar_events"] = 1
    /\ node_runs["approval_node"] = 1
    /\ agent_state.approval_state = "APPROVED"
    /\ agent_state.created_events = 2

----------------------------------------------------------------------------
\* Properties of the intervals the free-time computation is given

Malformed(iv) == iv.end <= iv.start

HasMalformed(events) == \E i \in 1..Len(events) : Malformed(events[i])

\* C14: a busy period whose end is not after its start is rejected before
\* any free-time computation uses it: on such an input neither
\* compute_free_slots nor find_free_slots returns a list of slots.
C14_MalformedIntervalRejected ==
    HasMalformed(calendar_events_normalized) => free_done = {}

----------------------------------------------------------------------------
\* Properties of the carving of free slots into candidates

\* A free slot filter_slots carves: long enough, on an allowed weekday,
\* near a preferred hour.
PassesFilter(s) ==
    /\ s.duration_minutes >= min_event_duration
    /\ days_of_week = {} \/ Weekday(s.start) \in days_of_week
    /\ preferred_times = <<>> \/ MatchesPreferred(s.start, preferred_times)

\* Where the k-th candidate (k = 0, 1, ...) of slot s starts when all the
\* candidates before it are max_event_duration long and min_break apart.
CarveStart(s, k) ==
    s.start + k * (max_event_duration + min_break) * Minute

\* The whole minutes of s left at that start.
CarveRemaining(s, k) ==
    IF k = 0 THEN s.duration_minutes
    ELSE TruncDiv(s.end - CarveStart(s, k), Minute)

\* The k-th candidate exists: the ones before it did not use up the slot,
\* and the time left is not below the minimum.
CarveExists(s, k) ==
    /\ max_event_duration >= min_event_duration
    /\ \A j \in 0..(k - 1) : CarveRemaining(s, j) >= max_event_duration
    /\ CarveRemaining(s, k) >= min_event_duration

\* The candidates the claim describes for one slot.
ExpectedCarve(s) ==
    LET n == Cardinality({k \in 0..(s.duration_minutes \div min_event_duration) :
                             CarveExists(s, k)})
    IN [i \in 1..n |->
           LET len == Min2(max_event_duration, CarveRemaining(s, i - 1))
           IN [start |-> CarveStart(s, i - 1),
               end |-> CarveStart(s, i - 1) + len * Minute,
               duration_minutes |-> len]]

RECURSIVE ExpectedCandidates(_)
ExpectedCandidates(slots) ==
    IF slots = <<>> THEN <<>>
    ELSE (IF PassesFilter(Head(slots)) THEN ExpectedCarve(Head(slots))
          ELSE <<>>)
         \o ExpectedCandidates(Tail(slots))

\* The example: a 90-minute slot (22:00-23:30) with min = max = 30 and a
\* buffer of 15.
IsCarveExample ==
    /\ available_slots = <<[start |-> 79200, end |-> 84600,
                            duration_minutes |-> 90]>>
    /\ min_event_duration = 30
    /\ max_event_duration = 30
    /\ min_break = 15
    /\ PassesFilter(available_slots[1])

\* C15: filter_slots carves each passing free slot into back-to-back
\* candidates: the first starts at the slot start, each is
\* min(max duration, minutes left in the slot) long, consecutive candidates
\* of a slot are exactly the buffer apart, every candidate lies inside its
\* slot, and carving stops as soon as the minutes left are below the
\* minimum; the 90-minute example yields exactly two 30-minute candidates
\* 15 minutes apart with the last 15 minutes unused.
C15_CarvedBackToBack ==
    "filtered" \in slots_done =>
        /\ filtered_slots = ExpectedCandidates(available_slots)
        /\ \A i \in 1..Len(filtered_slots) :
               \E j \in 1..Len(available_slots) :
                   /\ available_slots[j].start <= filtered_slots[i].start
                   /\ filtered_slots[i].end <= available_slots[j].end
        /\ IsCarveExample =>
               filtered_slots =
                   <<[start |-> 79200, end |-> 81000, duration_minutes |-> 30],
                     [start |-> 81900, end |-> 83700, duration_minutes |-> 30]>>

\* filter_slots ran on the example.
C15_Witness ==
    /\ "filtered" \in slots_done
    /\ IsCarveExample
    /\ Len(filtered_slots) = 2

----------------------------------------------------------------------------
\* Properties of filter_task_slots

\* C16: with a due date set, no candidate comes from a free slot that
\* starts at or after it: every candidate starts before the due instant,
\* a slot starting exactly at it included.
C16_NoCandidateFromCutoffOn ==
    (task_done > 0 /\ task_due.set) =>
        \A i \in 1..Len(task_candidates) :
            task_candidates[i].start < task_due.at

----------------------------------------------------------------------------
\* Two invocations of schedule_plan on the same inputs

----------------------------------------------------------------------------
\* Properties of TimeSlotFinder.find_free_slots

\* The busy intervals the sweep runs over, and the cursor after the first k.
SweptIntervals ==
    SortByStart(_parse_events_to_intervals(calendar_events_normalized,
                                           start_date, end_date))

CursorAfter(k) ==
    SweepIntervals(SubSeq(SweptIntervals, 1, k), start_date, <<>>,
                   min_duration_minutes).current_time

----------------------------------------------------------------------------
\* Termination of one invocation of the agent graph

\* C19: every invocation of the graph reaches END after finitely many node
\* executions, whatever approval_state the caller supplied, for task and
\* habit flows alike and whatever the language model answers, each node
\* call returning.
C19_ReachesEnd == <>(agent_pc = "END")

\* The nodes that are stages of the scheduling pipeline.
StageNodes ==
    {"compute_free_slots", "filter_slots", "filter_task_slots",
     "select_slots", "select_task_slot", "create_calendar_events"}

\* C20: within one invocation each pipeline stage (free-slot computation,
\* constraint filtering, selection, event creation) runs at most once: no
\* stage is entered a second time before the invocation ends.
C20_StagesRunAtMostOnce ==
    \A n \in StageNodes : node_runs[n] <= 1

----------------------------------------------------------------------------
\* The duration the distributor gives to each slot

\* The events placed in the slots before the one of 0-based index i of the
\* sorted input.
PlacedBefore(i) == SelectSeq(scheduled_events, LAMBDA e : e.slot_index < i)

PlacedIn(i) == SelectSeq(scheduled_events, LAMBDA e : e.slot_index = i)

RemainingBefore(i) == total_minutes - SumDurations(PlacedBefore(i))

\* The loop reaches slot i with minutes left and the slot is far enough from
\* the last event placed.
PassesBreakCheck(i) ==
    LET before == PlacedBefore(i)
        slot == SortByStart(available_slots)[i + 1]
    IN /\ RemainingBefore(i) > 0
       /\ \/ before = <<>>
          \/ _calculate_break_needed(before[Len(before)].end_time, slot.start)
                 >= min_break

ChosenDuration(i) ==
    Min2(max_event_duration,
         Min2(RemainingBefore(i),
              SortByStart(available_slots)[i + 1].duration_minutes))

\* C21: for every slot that passes the break check, the duration chosen is
\* min(max_event_duration, remaining_minutes, slot.duration_minutes); when
\* that value is below min_event_duration the slot is skipped, otherwise one
\* event of that duration is placed at the slot start and remaining_minutes
\* decreases by exactly that duration.
C21_DurationIsMinOfThree ==
    "distributed" \in slots_done =>
        \A i \in 0..(Len(available_slots) - 1) :
            PassesBreakCheck(i) =>
                LET slot == SortByStart(available_slots)[i + 1]
                    d == ChosenDuration(i)
                IN IF d < min_event_duration
                   THEN /\ PlacedIn(i) = <<>>
                        /\ RemainingBefore(i + 1) = RemainingBefore(i)
                   ELSE /\ PlacedIn(i) =
                               <<[start_time |-> slot.start,
                                  end_time |-> slot.start + d * Minute,
                                  duration_minutes |-> d,
                                  slot_index |-> i,
                                  slot_start |-> slot.start]>>
                        /\ RemainingBefore(i + 1) = RemainingBefore(i) - d

\* The first slot got an event as long as the slot, shorter than
\* max_event_duration; the second passed a positive break check and got the
\* minutes that were left, fewer than the slot holds.
C21_Witness ==
    /\ "distributed" \in slots_done
    /\ Len(scheduled_events) = 2
    /\ min_break >= 1
    /\ scheduled_events[1].duration_minutes < max_event_duration
    /\ scheduled_events[1].duration_minutes < total_minutes
    /\ scheduled_events[2].duration_minutes < max_event_duration
    /\ scheduled_events[2].duration_minutes = RemainingBefore(1)
    /\ scheduled_events[2].duration_minutes
           < SortByStart(available_slots)[2].duration_minutes
    /\ remaining_minutes = 0

\* A slot passed the break check and was skipped: what it could hold is
\* below min_event_duration.
C21_SkipReached ==
    /\ "distributed" \in slots_done
    /\ \E i \in 0..(Len(available_slots) - 1) :
           /\ PassesBreakCheck(i)
           /\ ChosenDuration(i) < min_event_duration
           /\ ChosenDuration(i) > 0

----------------------------------------------------------------------------
\* Spacing and number of the occurrences of a habit

\* The spacing the selection guidelines ask of a daily habit.
DailySpacing == 20 * Hour

\* C22: with frequency 'daily', any two occurrences returned by select_slots
\* in recurring mode have starts at least 20 hours apart, on the
\* model-driven path, on the top-up path and on the fallback path.
C22_DailySpacingKept ==
    (select_op = "habit" /\ habit_definition.frequency = "daily") =>
        \A i, j \in 1..Len(selected_slots) :
            i < j => Abs(selected_slots[j].start - selected_slots[i].start)
                         >= DailySpacing

\* C23: in recurring mode select_slots never returns more occurrences than
\* the target count (num_occurrences, or the frequency default when it is
\* absent), whatever indices the ranking model returned.
C23_AtMostTargetCount ==
    select_op = "habit" =>
        Len(selected_slots) <= NumSlotsToSelect(habit_definition)

----------------------------------------------------------------------------
\* Day and time-of-day constraints of the carved candidates

\* The candidate's own start is on an allowed weekday and within one hour of
\* a preferred time.
MeetsDayAndTime(c) ==
    /\ days_of_week = {} \/ Weekday(c.start) \in days_of_week
    /\ preferred_times = <<>> \/ MatchesPreferred(c.start, preferred_times)

\* C24: every candidate emitted by filter_slots satisfies the day-of-week
\* and time-of-day constraints in isolation, also the candidates carved
\* later in a long free slot that spans several hours or several days.
C24_CandidatesMeetConstraints ==
    "filtered" \in slots_done =>
        \A i \in 1..Len(filtered_slots) : MeetsDayAndTime(filtered_slots[i])

----------------------------------------------------------------------------
\* The constraint filter without a maximum duration

\* The passing free slots, each as one candidate that spans it.
RECURSIVE WholeSlotCandidates(_)
WholeSlotCandidates(slots) ==
    IF slots = <<>> THEN <<>>
    ELSE (IF PassesFilter(Head(slots))
          THEN <<[start |-> Head(slots).start,
                  end |-> Head(slots).end,
                  duration_minutes |-> Head(slots).duration_minutes]>>
          ELSE <<>>)
         \o WholeSlotCandidates(Tail(slots))

\* C25: when no maximum duration is given to the constraint filter, each
\* passing free slot yields exactly one candidate, and that candidate spans
\* the whole slot.
C25_NoMaxWholeSlot ==
    "filtered_no_max" \in slots_done =>
        filtered_slots = WholeSlotCandidates(available_slots)

----------------------------------------------------------------------------
\* The path of a task request through the graph

HabitOnlyNodes == {"filter_slots", "select_slots"}

\* C26: for a TASK_SCHEDULE request the graph runs task_analyzer,
\* update_task_due_date, the shared pipeline, filter_task_slots,
\* select_task_slot and approval_node, and never enters the habit nodes
\* filter_slots or select_slots, whatever task_analyzer returns (including
\* when no task data was supplied).
C26_TaskNeverEntersHabitNodes ==
    agent_state.intent_type = "TASK_SCHEDULE" =>
        /\ agent_pc \notin HabitOnlyNodes
        /\ \A n \in HabitOnlyNodes : node_runs[n] = 0

\* With a task_definition in the state the task request does stay on the
\* task nodes.
C26_TaskWithDefinitionStaysOnTaskNodes ==
    (agent_state.intent_type = "TASK_SCHEDULE" /\ agent_state.task_definition)
    => /\ agent_pc \notin HabitOnlyNodes
       /\ \A n \in HabitOnlyNodes : node_runs[n] = 0

----------------------------------------------------------------------------
\* The preferred time windows of the slot finder

\* The days a slot covers.
DaysCovered(s) == (s.start \div Day)..((s.end - 1) \div Day)

\* The slot overlaps the window laid on day d.
OverlapsWindowOn(s, w, d) ==
    LET window_start == d * Day + w.start_hour * Hour + w.start_minute * Minute
        we == d * Day + w.end_hour * Hour + w.end_minute * Minute
        window_end == IF we <= window_start THEN we + Day ELSE we
    IN s.start < window_end /\ s.end > window_start

OverlapsSomeWindow(s) ==
    \E i \in 1..Len(preferred_time_windows) :
        \E d \in DaysCovered(s) :
            OverlapsWindowOn(s, preferred_time_windows[i], d)

\* The free slots before the windows are applied.
UnfilteredSlots ==
    find_free_slots(calendar_events_normalized, start_date, end_date, <<>>,
                    min_duration_minutes)

\* C27: with preferred time windows set, find_free_slots keeps a free slot
\* if and only if the slot overlaps at least one preferred time window on
\* some day the slot covers, including slots that begin after the window on
\* one day and extend into the window on a later day.
C27_KeptIffOverlapsWindow ==
    ("found" \in free_done /\ preferred_time_windows # <<>>) =>
        finder_slots = SelectSeq(UnfilteredSlots, OverlapsSomeWindow)

\* Every slot that is kept overlaps a window on the day it starts.
C27_KeptOverlapsOnStartDay ==
    ("found" \in free_done /\ preferred_time_windows # <<>>) =>
        \A k \in 1..Len(finder_slots) :
            \E i \in 1..Len(preferred_time_windows) :
                OverlapsWindowOn(finder_slots[k], preferred_time_windows[i],
                                 finder_slots[k].start \div Day)

----------------------------------------------------------------------------
\* The decision log of schedule_plan

IsPrefix(a, b) == Len(a) <= Len(b) /\ SubSeq(b, 1, Len(a)) = a

\* The place of each step name in the pipeline.
StepRank(step) ==
    CASE step = "window_calculation" -> 1
      [] step = "window_set" -> 2
      [] step = "fetch_events" -> 3
      [] step = "events_fetched" -> 4
      [] step = "find_slots" -> 5
      [] step = "slots_found" -> 6
      [] step = "no_slots" -> 7
      [] step = "distribute_events" -> 7
      [] step = "events_distributed" -> 8
      [] step = "create_events" -> 9
      [] step = "event_created" -> 10
      [] step = "event_creation_failed" -> 10
      [] step = "scheduling_complete" -> 11
      [] step = "scheduling_error" -> 12

PerEventSteps == {"event_created", "event_creation_failed"}

LastSteps == {"no_slots", "scheduling_complete", "scheduling_error"}

\* The entries follow the pipeline: every step name other than the per-event
\* ones occurs once, in the order of the stages, and nothing follows the
\* entry that ends the run.
InPipelineOrder(log) ==
    /\ \A i \in 1..(Len(log) - 1) :
           \/ StepRank(log[i].step) < StepRank(log[i + 1].step)
           \/ {log[i].step, log[i + 1].step} \subseteq PerEventSteps
    /\ \A i \in 1..Len(log) : log[i].step \in LastSteps => i = Len(log)

\* The pipeline stage a step name belongs to.
StageOf(step) ==
    CASE step \in {"window_calculation", "window_set"} -> "window"
      [] step \in {"fetch_events", "events_fetched"} -> "fetch"
      [] step \in {"find_slots", "slots_found", "no_slots"} -> "find"
      [] step \in {"distribute_events", "events_distributed"} -> "distribute"
      [] step \in {"create_events", "event_created",
                   "event_creation_failed"} -> "create"
      [] step = "scheduling_complete" -> "complete"
      [] step = "scheduling_error" -> "error"

OneEntryPerStage(log) ==
    \A i, j \in 1..Len(log) :
        i < j => StageOf(log[i].step) # StageOf(log[j].step)

\* A step of one run of schedule_plan (not the start of the next run).
SamePlanRun == engine_run' = engine_run

C28_EarlyReturnReached ==
    /\ engine_pc = "returned"
    /\ Logged("no_slots", 0)

C28_ExceptionPathReached ==
    /\ engine_pc = "returned"
    /\ Logged("scheduling_error", 0)

----------------------------------------------------------------------------
\* The events of the distributor for pairwise disjoint slots

\* The slot an event was placed in.
SlotOf(ev) == SortByStart(available_slots)[ev.slot_index + 1]

\* C29: when the input slots are pairwise disjoint, the events returned by
\* distribute_events are in chronological order, pairwise non-overlapping,
\* and each lies inside the slot it was placed in (event.start = slot.start
\* and event.end <= slot.end), for every min_break >= 0 including 0.
C29_EventsInsideDisjointSlots ==
    ("distributed" \in slots_done /\ PairwiseDisjoint(available_slots)) =>
        /\ \A k \in 1..(Len(scheduled_events) - 1) :
               scheduled_events[k].start_time
                   < scheduled_events[k + 1].start_time
        /\ \A i, j \in 1..Len(scheduled_events) :
               i < j => scheduled_events[i].end_time
                            <= scheduled_events[j].start_time
        /\ \A k \in 1..Len(scheduled_events) :
               /\ scheduled_events[k].start_time
                      = SlotOf(scheduled_events[k]).start
               /\ scheduled_events[k].end_time
                      <= SlotOf(scheduled_events[k]).end

\* Two events were placed with min_break = 0 in two slots that touch, given
\* in reverse order, the first event filling its slot to the end.
C29_Witness ==
    /\ "distributed" \in slots_done
    /\ min_break = 0
    /\ Len(available_slots) = 2
    /\ PairwiseDisjoint(available_slots)
    /\ available_slots[2].end = available_slots[1].start
    /\ Len(scheduled_events) = 2
    /\ scheduled_events[1].end_time = available_slots[2].end

----------------------------------------------------------------------------
\* The minutes reported as scheduled

\* schedule_plan returned after the event-creation stage.
ReturnedAfterCreation ==
    /\ engine_pc = "returned"
    /\ \E n \in 0..Len(planned_events) : Logged("scheduling_complete", n)

\* C30: in every result schedule_plan returns after the event-creation
\* stage, total_minutes_scheduled equals the summed duration of the events
\* actually created (events_created), also when the creation of some
\* planned events failed.
C30_ScheduledEqualsCreated ==
    ReturnedAfterCreation =>
        result.total_minutes_scheduled = SumDurations(result.events_created)

\* What the result does report: the minutes of the planned events.
C30_ScheduledEqualsPlanned ==
    ReturnedAfterCreation =>
        /\ result.total_minutes_scheduled = SumDurations(planned_events)
        /\ result.total_minutes_scheduled
               = requirement.total_minutes_per_week - result.remaining_minutes

====
